---- MODULE Spec2Model ----
(***************************************************************************)
(* Model of synaptic_reconstruction/distance_measurements.py:              *)
(* pairwise boundary distances between the objects of a labelled volume,   *)
(* nearest-neighbour extraction, distance lines and the direct-distance    *)
(* (line-of-sight) filter.                                                 *)
(*                                                                         *)
(* Distances are kept as exact SQUARED values (the code holds their        *)
(* floating point square roots): sqrt is strictly monotone and exact on    *)
(* perfect squares, so minima, arg-minima and equalities coincide.         *)
(* Array indices are 0-based as in the code; seg_ids is a sequence, so     *)
(* the identifier of index i is seg_ids[i + 1].                            *)
(***************************************************************************)
EXTENDS Integers, Sequences, FiniteSets, TLC

\* ------------------------------------------------------------------ bounds
MaxLabel == 3
MaxThreads == 2
MaxNeighbors == 3
MaxDilation == 1
MaxScale == 2

\* --------------------------------------------------------------- constants
\* np.inf (used to mask the distance field and the distance matrix)
Inf == 1000000

None == "None"

\* ----------------------------------------------------------------- helpers
Abs(x) == IF x < 0 THEN -x ELSE x

SetMin(S) == CHOOSE x \in S : \A y \in S : x <= y

SetMax(S) == CHOOSE x \in S : \A y \in S : y <= x

Range(f) == {f[x] : x \in DOMAIN f}

RECURSIVE SortedSeq(_)
SortedSeq(S) == IF S = {} THEN <<>> ELSE <<SetMin(S)>> \o SortedSeq(S \ {SetMin(S)})

\* ------------------------------------------------------------------ volume
Voxels(shp) == (0..(shp[1] - 1)) \X (0..(shp[2] - 1)) \X (0..(shp[3] - 1))

\* position of a voxel in the flattened (C order) array
Flat(v, shp) == (v[1] * shp[2] + v[2]) * shp[3] + v[3]

\* np.unique: the sorted distinct values of the volume
Unique(seg) == SortedSeq(Range(seg))

\* seg_ids = np.unique(segmentation)[1:]
SegIds(seg) == SubSeq(Unique(seg), 2, Len(Unique(seg)))

\* the voxels of one object (segmentation == id)
Mask(seg, id) == {v \in DOMAIN seg : seg[v] = id}

\* sampling=resolution of the distance transform; None means unit voxels
Sampling(res) == IF res = <<>> THEN <<1, 1, 1>> ELSE res

SqDist(u, v, res) ==
    LET s == Sampling(res)
    IN ((u[1] - v[1]) * s[1]) * ((u[1] - v[1]) * s[1])
     + ((u[2] - v[2]) * s[2]) * ((u[2] - v[2]) * s[2])
     + ((u[3] - v[3]) * s[3]) * ((u[3] - v[3]) * s[3])

\* distance_transform_edt(segmentation != seg_id, sampling=resolution):
\* the distance of every voxel to the nearest voxel of the object
EdtDistances(seg, seg_id, res) ==
    [v \in DOMAIN seg |->
        IF seg[v] = seg_id THEN 0
        ELSE SetMin({SqDist(u, v, res) : u \in Mask(seg, seg_id)})]

\* return_indices=True: for every voxel the coordinate of a nearest voxel of
\* the object.  Which of several equally near voxels is reported is not
\* specified by the library; tie is the rule of the build at hand.
EdtIndices(seg, shp, seg_id, res, tie) ==
    [v \in DOMAIN seg |->
        IF seg[v] = seg_id THEN v
        ELSE LET d == SetMin({SqDist(u, v, res) : u \in Mask(seg, seg_id)})
                 near == {u \in Mask(seg, seg_id) : SqDist(u, v, res) = d}
             IN IF tie = "first"
                THEN CHOOSE u \in near : \A w \in near : Flat(u, shp) <= Flat(w, shp)
                ELSE CHOOSE u \in near : \A w \in near : Flat(w, shp) <= Flat(u, shp)]

\* the distance field left as it is (the line ngb_dist[~mask] = np.inf lost)
UnmaskedDistances(distances, seg, ngb_id) == distances

\* ngb_dist[~mask] = inf
MaskedDistances(distances, seg, ngb_id) ==
    [v \in DOMAIN seg |-> IF seg[v] = ngb_id THEN distances[v] ELSE Inf]

\* np.unravel_index(np.argmin(ngb_dist)): the first minimum in flat order
ArgMin(field, shp) ==
    CHOOSE v \in DOMAIN field :
        /\ \A w \in DOMAIN field : field[v] <= field[w]
        /\ \A w \in DOMAIN field : field[w] = field[v] => Flat(v, shp) <= Flat(w, shp)

MinPointNgb(distances, seg, shp, ngb_id) ==
    ArgMin(MaskedDistances(distances, seg, ngb_id), shp)

\* --------------------------------------------------------- input volumes
SmallShape == <<2, 2, 1>>

LineShape == <<13, 1, 1>>

\* every labelling of the small volume, the ones without background included
SmallVolumes ==
    {[shape |-> SmallShape, seg |-> f] : f \in [Voxels(SmallShape) -> 0..MaxLabel]}

\* three objects on one axis: id 1 at x in [0,2], id 2 at [10,12], id 3 at [5,7]
LineVolume ==
    [shape |-> LineShape,
     seg |-> [v \in Voxels(LineShape) |->
                 IF v[1] <= 2 THEN 1
                 ELSE IF v[1] >= 10 THEN 2
                 ELSE IF v[1] >= 5 /\ v[1] <= 7 THEN 3
                 ELSE 0]]

\* resolution=None
NoResolution == <<>>

\* None, or voxels twice as long along the first axis
Resolutions == {NoResolution, <<2, 1, 1>>}

\* ------------------------------------------------------------------ state
VARIABLES
    shape,              \* segmentation.shape
    segmentation,       \* the labelled volume
    resolution,         \* <<>> (None) or the voxel size per axis
    n_threads,          \* size of the thread pool
    distance_type,      \* argument of measure_pairwise_object_distances
    save_path,          \* None or the path of the measurement record
    edt_tie,            \* tie rule of the distance transform's indices
    seg_ids,            \* compute_boundary_distances: identifiers operated on
    pairwise_distances, \* n x n matrix, shared by the workers
    end_points1,        \* n x n table of voxels, shared by the workers
    end_points2,        \* n x n table of voxels, shared by the workers
    tasks,              \* per object index: the future and its worker's locals
    next_result,        \* index of the future whose result list() awaits
    pool_error,         \* exception re-raised by the result iterator
    main_pc,            \* position of the caller
    error,              \* exception that left measure_pairwise_object_distances
    result,             \* <<>> or <<the record returned by measure_pairwise_object_distances>>
    saved,              \* <<>> or <<the record in the file at save_path>>
    writers,            \* history: which tasks wrote which cell of which array
    call                \* the last call of a function that reads the record: arguments and outcome

vars == <<shape, segmentation, resolution, n_threads, distance_type, save_path,
          edt_tie, seg_ids, pairwise_distances, end_points1, end_points2,
          tasks, next_result, pool_error, main_pc, error, result, saved, writers,
          call>>

inputs == <<shape, segmentation, resolution, n_threads, distance_type, save_path,
            edt_tie>>

shared == <<pairwise_distances, end_points1, end_points2, writers>>

N == Len(seg_ids)

Indices == 0..(N - 1)

Cells == Indices \X Indices

ZeroPoint == <<0, 0, 0>>

\* supported_distances = ("boundary", "centroid")
supported_distances == {"boundary", "centroid"}

DistanceTypes == {"boundary", "centroid", "area"}

NoCall == [op |-> "none"]

QueuedTask == [status |-> "queued", pc |-> "edt", j |-> 0,
               distances |-> <<>>, indices |-> <<>>]

Init ==
    /\ \E vol \in SmallVolumes \cup {LineVolume} :
          /\ shape = vol.shape
          /\ segmentation = vol.seg
    /\ resolution \in Resolutions
    /\ n_threads \in 1..MaxThreads
    /\ distance_type \in DistanceTypes
    /\ save_path \in {None, "measurements.npz"}
    /\ edt_tie \in {"first", "last"}
    /\ seg_ids = <<>>
    /\ pairwise_distances = <<>>
    /\ end_points1 = <<>>
    /\ end_points2 = <<>>
    /\ tasks = <<>>
    /\ next_result = 0
    /\ pool_error = None
    /\ main_pc = "call"
    /\ error = None
    /\ result = <<>>
    /\ saved = <<>>
    /\ writers = {}
    /\ call = NoCall

\* ----------------------------------------- measure_pairwise_object_distances
\* assert distance_type in supported_distances (an assert statement is
\* compiled away under python -O, so both builds are modelled)
AssertSupported(dt, assertions) == assertions => dt \in supported_distances

\* the boundary branch taken as the default branch
IsNotCentroid(dt) == dt # "centroid"

IsBoundary(dt) == dt = "boundary"

IsCentroid(dt) == dt = "centroid"

\* lines 75-80 with the head of compute_boundary_distances (lines 28-33, 59-62):
\* the arrays are allocated and one future per object index is submitted
Call ==
    /\ main_pc = "call"
    /\ \E assertions \in BOOLEAN :
        IF ~AssertSupported(distance_type, assertions)
        THEN /\ main_pc' = "raised"
             /\ error' = "AssertionError"
             /\ UNCHANGED <<seg_ids, shared, tasks>>
        ELSE IF IsBoundary(distance_type)
        THEN /\ seg_ids' = SegIds(segmentation)
             /\ LET n == Len(SegIds(segmentation))
                    idx == 0..(n - 1)
                IN /\ pairwise_distances' = [c \in idx \X idx |-> 0]
                   /\ end_points1' = [c \in idx \X idx |-> ZeroPoint]
                   /\ end_points2' = [c \in idx \X idx |-> ZeroPoint]
                   /\ tasks' = [i \in idx |-> QueuedTask]
             /\ main_pc' = "map"
             /\ UNCHANGED <<error, writers>>
        ELSE IF IsCentroid(distance_type)
        THEN /\ main_pc' = "raised"
             /\ error' = "NotImplementedError"
             /\ UNCHANGED <<seg_ids, shared, tasks>>
        ELSE \* neither branch bound the locals: np.savez(distances=...) or the
             \* return statement reads an unbound local
             /\ main_pc' = "raised"
             /\ error' = "UnboundLocalError"
             /\ UNCHANGED <<seg_ids, shared, tasks>>
    /\ UNCHANGED <<inputs, call, next_result, pool_error, result, saved>>

\* ------------------------------------------------- the thread pool's workers
Running == {i \in DOMAIN tasks : tasks[i].status = "running"}

Queued == {i \in DOMAIN tasks : tasks[i].status = "queued"}

\* a free worker takes the oldest queued future
StartTask(i) ==
    /\ main_pc \in {"map", "shutdown"}
    /\ i \in Queued
    /\ \A k \in Queued : i <= k
    /\ Cardinality(Running) < n_threads
    /\ tasks' = [tasks EXCEPT ![i].status = "running"]
    /\ UNCHANGED <<inputs, call, seg_ids, shared, next_result, pool_error, main_pc,
                   error, result, saved>>

\* only the diagonal skipped (if i == j: continue)
SkipsDiagonalOnly(i, j) == i = j

\* if i >= j: continue
Skips(i, j) == i >= j

\* for j in range(len(seg_ids)): the next index from k on whose body is run
NextJ(i, k, n) ==
    LET body == {j \in k..(n - 1) : ~Skips(i, j)}
    IN IF body = {} THEN n ELSE SetMin(body)

\* the task at the head of the loop with the loop variable at k
AtIteration(t, i, k, n) ==
    IF NextJ(i, k, n) < n THEN [t EXCEPT !.pc = "dist", !.j = NextJ(i, k, n)]
    ELSE [t EXCEPT !.status = "done", !.pc = "end", !.distances = <<>>, !.indices = <<>>]

\* line 37-38: the distance transform of object i
TaskEdt(i) ==
    /\ i \in Running
    /\ tasks[i].pc = "edt"
    /\ LET seg_id == seg_ids[i + 1]
           t == [tasks[i] EXCEPT
                    !.distances = EdtDistances(segmentation, seg_id, resolution),
                    !.indices = EdtIndices(segmentation, shape, seg_id, resolution, edt_tie)]
       IN tasks' = [tasks EXCEPT ![i] = AtIteration(t, i, 0, N)]
    /\ UNCHANGED <<inputs, call, seg_ids, shared, next_result, pool_error, main_pc,
                   error, result, saved>>

\* the unit of work raises (e.g. the distance transform rejects its input)
TaskFails(i) ==
    /\ i \in Running
    /\ tasks[i].pc = "edt"
    /\ tasks' = [tasks EXCEPT ![i].status = "failed"]
    /\ UNCHANGED <<inputs, call, seg_ids, shared, next_result, pool_error, main_pc,
                   error, result, saved>>

\* every unit of work writing into the first row
WriteCellFirstRow(i, j) == <<0, j>>

\* the cell of the shared arrays that the unit of work of index i writes for j
WriteCell(i, j) == <<i, j>>

\* line 46-51
MinDist(t, j) ==
    t.distances[MinPointNgb(t.distances, segmentation, shape, seg_ids[j + 1])]

\* line 53
MinPoint(t, j) ==
    t.indices[MinPointNgb(t.distances, segmentation, shape, seg_ids[j + 1])]

\* line 54: pairwise_distances[i, j] = min_dist
TaskWriteDistance(i) ==
    /\ i \in Running
    /\ tasks[i].pc = "dist"
    /\ LET j == tasks[i].j
       IN /\ pairwise_distances' =
                [pairwise_distances EXCEPT ![WriteCell(i, j)] = MinDist(tasks[i], j)]
          /\ writers' = writers \cup {<<"distances", WriteCell(i, j), i>>}
    /\ tasks' = [tasks EXCEPT ![i].pc = "ep1"]
    /\ UNCHANGED <<inputs, call, seg_ids, end_points1, end_points2, next_result,
                   pool_error, main_pc, error, result, saved>>

\* line 56: end_points1[i, j] = min_point
TaskWriteEndPoint1(i) ==
    /\ i \in Running
    /\ tasks[i].pc = "ep1"
    /\ LET j == tasks[i].j
       IN /\ end_points1' =
                [end_points1 EXCEPT ![WriteCell(i, j)] = MinPoint(tasks[i], j)]
          /\ writers' = writers \cup {<<"endpoints1", WriteCell(i, j), i>>}
    /\ tasks' = [tasks EXCEPT ![i].pc = "ep2"]
    /\ UNCHANGED <<inputs, call, seg_ids, pairwise_distances, end_points2, next_result,
                   pool_error, main_pc, error, result, saved>>

\* line 57: end_points2[i, j] = min_point_ngb
TaskWriteEndPoint2(i) ==
    /\ i \in Running
    /\ tasks[i].pc = "ep2"
    /\ LET j == tasks[i].j
       IN /\ end_points2' =
                [end_points2 EXCEPT ![WriteCell(i, j)] =
                    MinPointNgb(tasks[i].distances, segmentation, shape, seg_ids[j + 1])]
          /\ writers' = writers \cup {<<"endpoints2", WriteCell(i, j), i>>}
          /\ tasks' = [tasks EXCEPT ![i] = AtIteration(tasks[i], i, j + 1, N)]
    /\ UNCHANGED <<inputs, call, seg_ids, pairwise_distances, end_points1, next_result,
                   pool_error, main_pc, error, result, saved>>

\* ------------------------------------------ the caller inside the with block
\* list(tp.map(...)): the results are awaited in submission order
MainNextResult ==
    /\ main_pc = "map"
    /\ next_result < N
    /\ tasks[next_result].status = "done"
    /\ next_result' = next_result + 1
    /\ UNCHANGED <<inputs, call, seg_ids, shared, tasks, pool_error, main_pc, error,
                   result, saved>>

\* the results of the futures never looked at (tp.map without list())
ResultIgnored(status) == None

\* what the result iterator does with a future that raised
ResultOfFailed(status) == IF status = "failed" THEN "WorkerError" ELSE None

\* future.result() re-raises the unit's exception; the iterator's finally
\* clause cancels every future that has not started
MainResultRaises ==
    /\ main_pc = "map"
    /\ next_result < N
    /\ tasks[next_result].status = "failed"
    /\ pool_error' = ResultOfFailed(tasks[next_result].status)
    /\ IF ResultOfFailed(tasks[next_result].status) # None
       THEN /\ tasks' = [i \in DOMAIN tasks |->
                           IF tasks[i].status = "queued"
                           THEN [tasks[i] EXCEPT !.status = "cancelled"]
                           ELSE tasks[i]]
            /\ main_pc' = "shutdown"
            /\ UNCHANGED next_result
       ELSE /\ next_result' = next_result + 1
            /\ UNCHANGED <<tasks, main_pc>>
    /\ UNCHANGED <<inputs, call, seg_ids, shared, error, result, saved>>

\* every result was delivered: the with block is left
MainAllResults ==
    /\ main_pc = "map"
    /\ next_result = N
    /\ main_pc' = "shutdown"
    /\ UNCHANGED <<inputs, call, seg_ids, shared, tasks, next_result, pool_error,
                   error, result, saved>>

\* ThreadPoolExecutor.__exit__: shutdown(wait=True) joins the workers, then
\* the pending exception propagates or line 65 returns the arrays
MainShutdown ==
    /\ main_pc = "shutdown"
    /\ Running = {}
    /\ Queued = {}
    /\ IF pool_error # None
       THEN /\ main_pc' = "raised"
            /\ error' = pool_error
       ELSE /\ main_pc' = "save"
            /\ UNCHANGED error
    /\ UNCHANGED <<inputs, call, seg_ids, shared, tasks, next_result, pool_error,
                   result, saved>>

Record == [distances |-> pairwise_distances, endpoints1 |-> end_points1,
           endpoints2 |-> end_points2, seg_ids |-> seg_ids]

\* lines 84-93: np.savez when a save_path is given, then return
SaveAndReturn ==
    /\ main_pc = "save"
    /\ saved' = IF save_path # None THEN <<Record>> ELSE saved
    /\ result' = <<Record>>
    /\ main_pc' = "returned"
    /\ UNCHANGED <<inputs, call, seg_ids, shared, tasks, next_result, pool_error, error>>

Next ==
    \/ Call
    \/ \E i \in DOMAIN tasks : StartTask(i)
    \/ \E i \in DOMAIN tasks : TaskEdt(i)
    \/ \E i \in DOMAIN tasks : TaskFails(i)
    \/ \E i \in DOMAIN tasks : TaskWriteDistance(i)
    \/ \E i \in DOMAIN tasks : TaskWriteEndPoint1(i)
    \/ \E i \in DOMAIN tasks : TaskWriteEndPoint2(i)
    \/ MainNextResult
    \/ MainResultRaises
    \/ MainAllResults
    \/ MainShutdown
    \/ SaveAndReturn

Spec == Init /\ [][Next]_vars

TypeOK == main_pc \in {"call", "map", "shutdown", "save", "returned", "raised"}

\* ---------------------------------------------------------------- claims
\* What one worker that runs the units of work one after the other in index
\* order leaves in the arrays: a function of the volume, the resolution and
\* the library's tie rule alone.
SequentialRecord(seg, shp, res, tie) ==
    LET ids == SegIds(seg)
        idx == 0..(Len(ids) - 1)
        dist(i) == EdtDistances(seg, ids[i + 1], res)
        ind(i) == EdtIndices(seg, shp, ids[i + 1], res, tie)
        ngb(i, j) == MinPointNgb(dist(i), seg, shp, ids[j + 1])
    IN [distances |-> [c \in idx \X idx |->
                          IF c[1] < c[2] THEN dist(c[1])[ngb(c[1], c[2])] ELSE 0],
        endpoints1 |-> [c \in idx \X idx |->
                          IF c[1] < c[2] THEN ind(c[1])[ngb(c[1], c[2])] ELSE ZeroPoint],
        endpoints2 |-> [c \in idx \X idx |->
                          IF c[1] < c[2] THEN ngb(c[1], c[2]) ELSE ZeroPoint],
        seg_ids |-> ids]

\* C1: the unit of work of index i writes only cells [i, j] with j > i of the
\* three shared arrays, no cell is written by two units, and the record that
\* is returned is the one a single worker produces, whatever the number of
\* workers and the order in which their steps interleave.
C1_DisjointDeterministic ==
    /\ \A w \in writers : w[2][1] = w[3] /\ w[2][2] > w[3]
    /\ \A w1, w2 \in writers : (w1[1] = w2[1] /\ w1[2] = w2[2]) => w1[3] = w2[3]
    /\ main_pc = "returned" =>
          result = <<SequentialRecord(segmentation, shape, resolution, edt_tie)>>

C1_Witness ==
    /\ main_pc = "returned"
    /\ n_threads >= 2
    /\ N = 3
    /\ Cardinality(writers) = 9

\* C2: once a unit of work has failed the call never reaches its save or
\* return statement, nothing is written to save_path, and when the call has
\* ended it has ended by raising the worker's exception; a record that is
\* returned has every row written by a unit that ran to its end.
C2_FailureAborts ==
    /\ (\E i \in DOMAIN tasks : tasks[i].status = "failed") =>
          /\ main_pc \notin {"save", "returned"}
          /\ result = <<>>
          /\ saved = <<>>
          /\ main_pc = "raised" => error = "WorkerError"
    /\ main_pc \in {"save", "returned"} =>
          \A i \in DOMAIN tasks : tasks[i].status = "done"

C2_Witness ==
    /\ main_pc = "raised"
    /\ error = "WorkerError"
    /\ save_path # None
    /\ \E i, k \in DOMAIN tasks : tasks[i].status = "failed" /\ tasks[k].status = "done"
    /\ \E i \in DOMAIN tasks : tasks[i].status = "cancelled"

\* the smallest distance between a voxel of object a and a voxel of object b
BoundaryDistance(seg, res, a, b) ==
    SetMin({SqDist(u, v, res) : <<u, v>> \in Mask(seg, a) \X Mask(seg, b)})

\* C3: after compute_boundary_distances, for every i < j distances[i, j] is
\* the minimum (resolution-scaled) distance between a voxel of seg_ids[i] and
\* a voxel of seg_ids[j], endpoints1[i, j] is a voxel of seg_ids[i],
\* endpoints2[i, j] a voxel of seg_ids[j], and these two voxels are exactly
\* that distance apart.
C3_MinimumDistance ==
    \A i, j \in DOMAIN tasks :
        (i < j /\ main_pc \in {"save", "returned"}) =>
            /\ pairwise_distances[<<i, j>>] =
                  BoundaryDistance(segmentation, resolution, seg_ids[i + 1], seg_ids[j + 1])
            /\ segmentation[end_points1[<<i, j>>]] = seg_ids[i + 1]
            /\ segmentation[end_points2[<<i, j>>]] = seg_ids[j + 1]
            /\ SqDist(end_points1[<<i, j>>], end_points2[<<i, j>>], resolution) =
                  pairwise_distances[<<i, j>>]

C3_Witness ==
    /\ main_pc = "returned"
    /\ N = 3
    /\ resolution = <<2, 1, 1>>
    /\ \E c \in Cells : pairwise_distances[c] > 4

\* C4 as stated: the returned matrix is symmetric for all i and j.
C4_ReturnedMatrixSymmetric ==
    main_pc = "returned" =>
        \A i, j \in Indices : pairwise_distances[<<i, j>>] = pairwise_distances[<<j, i>>]

\* the distance the unit of work of index i computes towards index j
UnitDistance(i, j) ==
    LET d == EdtDistances(segmentation, seg_ids[i + 1], resolution)
    IN d[MinPointNgb(d, segmentation, shape, seg_ids[j + 1])]

\* C4 amended: the boundary distance is symmetric in value (what the unit of i
\* computes towards j is what the unit of j would compute towards i), but the
\* returned matrix holds it in the upper triangle only: for i < j
\* distances[i, j] is that distance, distances[j, i] and the diagonal are 0.
C4_UpperTriangleOfSymmetricDistance ==
    main_pc = "returned" =>
        \A i, j \in Indices :
            /\ i < j => /\ pairwise_distances[<<i, j>>] = UnitDistance(j, i)
                        /\ pairwise_distances[<<j, i>>] = 0
                        /\ pairwise_distances[<<i, j>>] > 0
            /\ pairwise_distances[<<i, i>>] = 0

C4_Witness ==
    /\ main_pc = "returned"
    /\ N = 3
    /\ pairwise_distances[<<0, 2>>] > 1
    /\ pairwise_distances[<<2, 0>>] = 0

\* C5 as stated: the identifiers operated on are exactly the distinct positive
\* identifiers present in the volume, also when the volume has no background.
C5_SegIdsArePresentObjects ==
    main_pc \in {"map", "shutdown", "save", "returned"} =>
        Range(seg_ids) = Range(segmentation) \ {0}

\* C10: a call with a distance_type other than "boundary" ends by raising
\* before any array is allocated or unit of work submitted ("centroid" raises
\* NotImplementedError); it returns nothing and writes nothing to save_path.
C10_UnsupportedTypeFails ==
    (distance_type # "boundary" /\ main_pc # "call") =>
        /\ main_pc = "raised"
        /\ error \in {"AssertionError", "NotImplementedError", "UnboundLocalError"}
        /\ distance_type = "centroid" => error = "NotImplementedError"
        /\ tasks = <<>> /\ writers = {} /\ seg_ids = <<>>
        /\ result = <<>>
        /\ saved = <<>>

C10_Witness ==
    /\ main_pc = "raised"
    /\ distance_type = "area"
    /\ error = "AssertionError"
    /\ save_path # None

\* ------------------------------------------------ extract_nearest_neighbors
\* np.isfinite
IsTrue(d) == TRUE

IsFinite(d) == d < Inf

\* lines 97-101: the diagonal and, with ignore_lower_diag, the lower triangle
\* of a copy of the matrix are set to inf
DistanceMatrix(m, n, ignore_lower_diag) ==
    [c \in (0..(n - 1)) \X (0..(n - 1)) |->
        IF c[1] = c[2] THEN Inf
        ELSE IF ignore_lower_diag /\ c[1] >= c[2] THEN Inf
        ELSE m[c]]

IndexOrders(n) ==
    {p \in [1..n -> 0..(n - 1)] : \A a, b \in 1..n : p[a] = p[b] => a = b}

\* np.argsort of row i: the order of equal entries is not specified, every
\* permutation that sorts the row is a possible outcome (np.sort of the row
\* is the row read in that order)
ArgSorts(dm, i, n) ==
    {p \in IndexOrders(n) :
        \A a \in 1..(n - 1) : dm[<<i, p[a]>>] <= dm[<<i, p[a + 1]>>]}

RECURSIVE RowPairs(_, _, _, _)
\* lines 108-110 for the first neighbours inds of row i, in order
RowPairs(dm, ids, i, inds) ==
    IF inds = <<>> THEN <<>>
    ELSE LET j == Head(inds)
             rest == RowPairs(dm, ids, i, Tail(inds))
         IN IF IsFinite(dm[<<i, j>>]) /\ ids[j + 1] > ids[i + 1]
            THEN <<(<<ids[i + 1], ids[j + 1]>>)>> \o rest
            ELSE rest

\* the possible pair lists of row i: [:, :n_neighbors] of its sorted order
RowOutcomes(dm, ids, i, k) ==
    LET n == Len(ids)
        kk == IF k < n THEN k ELSE n
    IN {RowPairs(dm, ids, i, SubSeq(p, 1, kk)) : p \in ArgSorts(dm, i, n)}

RECURSIVE PairsFromRow(_, _, _, _)
\* pairs.extend(...) over the rows i, i + 1, ...
PairsFromRow(dm, ids, k, i) ==
    IF i >= Len(ids) THEN {<<>>}
    ELSE {a \o b : a \in RowOutcomes(dm, ids, i, k), b \in PairsFromRow(dm, ids, k, i + 1)}

\* the pair lists extract_nearest_neighbors can return
ExtractNearestNeighbors(m, ids, n_neighbors, ignore_lower_diag) ==
    PairsFromRow(DistanceMatrix(m, Len(ids), ignore_lower_diag), ids, n_neighbors, 0)

\* distance matrices of n objects: an upper triangle of distances, some of
\* them infinite, over a lower triangle of zeros or its mirror image
Matrices(n) ==
    LET idx == 0..(n - 1)
        upper == {c \in idx \X idx : c[1] < c[2]}
    IN {[c \in idx \X idx |->
            IF c[1] < c[2] THEN u[c]
            ELSE IF c[1] = c[2] \/ ~mirror THEN 0
            ELSE u[<<c[2], c[1]>>]] :
        u \in [upper -> {1, 2, Inf}], mirror \in BOOLEAN}

RECURSIVE Reverse(_)
Reverse(q) == IF q = <<>> THEN <<>> ELSE Reverse(Tail(q)) \o <<Head(q)>>

\* identifier lists of n distinct identifiers, ascending or descending
IdLists(n) ==
    LET asc == {SortedSeq(S) : S \in {T \in SUBSET (1..MaxLabel) : Cardinality(T) = n}}
    IN asc \cup {Reverse(q) : q \in asc}

InitNeighbors ==
    /\ shape = <<0, 0, 0>>
    /\ segmentation = <<>>
    /\ resolution = NoResolution
    /\ n_threads = 1
    /\ distance_type = "boundary"
    /\ save_path = None
    /\ edt_tie = "first"
    /\ \E n \in 2..MaxLabel :
          /\ seg_ids \in IdLists(n)
          /\ pairwise_distances \in Matrices(n)
    /\ end_points1 = <<>>
    /\ end_points2 = <<>>
    /\ tasks = <<>>
    /\ next_result = 0
    /\ pool_error = None
    /\ main_pc = "call"
    /\ error = None
    /\ result = <<>>
    /\ saved = <<>>
    /\ writers = {}
    /\ call = NoCall

builder == <<seg_ids, shared, tasks, next_result, pool_error, main_pc, error,
             result, saved>>

\* extract_nearest_neighbors(pairwise_distances, seg_ids, n_neighbors,
\* ignore_lower_diag) called on the matrix and the identifier list
CallExtractNearestNeighbors ==
    /\ call.op = "none"
    /\ \E k \in 0..MaxNeighbors, ild \in BOOLEAN :
        \E pairs \in ExtractNearestNeighbors(pairwise_distances, seg_ids, k, ild) :
            call' = [op |-> "extract_nearest_neighbors", n_neighbors |-> k,
                     ignore_lower_diag |-> ild, pairs |-> pairs]
    /\ UNCHANGED <<inputs, builder>>

NextNeighbors == CallExtractNearestNeighbors

SpecNeighbors == InitNeighbors /\ [][NextNeighbors]_vars

\* C6: whatever the matrix, the identifier list and k, extract_nearest_neighbors
\* returns at most k pairs per object, no object as its own neighbour, no
\* unordered pair twice, and only pairs with id_a < id_b whose distance in
\* the matrix is finite.
C6_NeighborPairs ==
    call.op = "extract_nearest_neighbors" =>
        LET pairs == call.pairs
            pos == 1..Len(pairs)
            Index(id) == CHOOSE i \in Indices : seg_ids[i + 1] = id
        IN /\ \A a \in Range(seg_ids) :
                Cardinality({q \in pos : pairs[q][1] = a}) <= call.n_neighbors
           /\ \A q \in pos : pairs[q][1] # pairs[q][2]
           /\ \A q, r \in pos :
                q # r => {pairs[q][1], pairs[q][2]} # {pairs[r][1], pairs[r][2]}
           /\ \A q \in pos : pairs[q][1] < pairs[q][2]
           /\ \A q \in pos :
                pairwise_distances[<<Index(pairs[q][1]), Index(pairs[q][2])>>] < Inf

C6_Witness ==
    /\ call.op = "extract_nearest_neighbors"
    /\ call.n_neighbors = 1
    /\ N = 3
    /\ Len(call.pairs) = 2
    /\ \E c \in Cells : c[1] < c[2] /\ pairwise_distances[c] = Inf

\* ---------------------------------------------------- create_distance_lines
\* bb=None and scale=None
NoBB == <<>>

NoScale == 0

Scales == {NoScale} \cup (2..MaxScale)

\* seg_ids.index(id)
IndexOf(ids, id) ==
    CHOOSE i \in 0..(Len(ids) - 1) :
        ids[i + 1] = id /\ \A k \in 0..(i - 1) : ids[k + 1] # id

\* lines 124-126: every id1 < id2, id1 in the outer loop
RECURSIVE ExhaustiveFrom(_, _, _)
ExhaustiveFrom(ids, a, b) ==
    IF a > Len(ids) THEN <<>>
    ELSE IF b > Len(ids) THEN ExhaustiveFrom(ids, a + 1, 1)
    ELSE (IF ids[a] < ids[b] THEN <<(<<ids[a], ids[b]>>)>> ELSE <<>>)
         \o ExhaustiveFrom(ids, a, b + 1)

ExhaustivePairs(ids) == ExhaustiveFrom(ids, 1, 1)

\* lines 141-146, written with <= in place of the strict comparisons
InBBClosed(pt, bb) ==
    \A d \in 1..3 : pt[d] >= bb[d].start /\ pt[d] <= bb[d].stop

\* lines 141-146: strictly between start and stop on every axis
InBB(pt, bb) ==
    \A d \in 1..3 : pt[d] > bb[d].start /\ pt[d] < bb[d].stop

\* line 152-154: point -= offset
Offset(pt, bb) ==
    IF bb = NoBB THEN pt
    ELSE <<pt[1] - bb[1].start, pt[2] - bb[2].start, pt[3] - bb[3].start>>

\* line 160: lines //= scale_factor
Scaled(pt, scale) ==
    IF scale = NoScale THEN pt
    ELSE <<pt[1] \div scale, pt[2] \div scale, pt[3] \div scale>>

RECURSIVE InBoxPositions(_, _, _, _)
\* np.where(...): the positions of the pairs whose two points are in the box
InBoxPositions(starts, ends, bb, q) ==
    IF q > Len(starts) THEN <<>>
    ELSE (IF bb = NoBB \/ (InBB(starts[q], bb) /\ InBB(ends[q], bb))
          THEN <<q>> ELSE <<>>)
         \o InBoxPositions(starts, ends, bb, q + 1)

Failed(err) == [outcome |-> err, lines |-> <<>>, id_a |-> <<>>, id_b |-> <<>>,
                distance |-> <<>>]

\* lines 128-167 for the pair list sel
DistanceLines(rec, sel, bb, scale) ==
    LET ids == rec.seg_ids
        sp == 1..Len(sel)
    IN IF \E q \in sp : sel[q][1] \notin Range(ids) \/ sel[q][2] \notin Range(ids)
       THEN Failed("ValueError")      \* seg_ids.index of an absent identifier
       ELSE IF sel = <<>>
       THEN Failed("IndexError")      \* an empty float array used as an index
       ELSE
       LET cell(q) == <<IndexOf(ids, sel[q][1]), IndexOf(ids, sel[q][2])>>
           starts == [q \in sp |-> rec.endpoints1[cell(q)]]
           ends == [q \in sp |-> rec.endpoints2[cell(q)]]
           in_bb == InBoxPositions(starts, ends, bb, 1)
           kp == 1..Len(in_bb)
       IN IF in_bb = <<>> /\ scale # NoScale
          THEN Failed("ValueError")   \* an array of shape (0,) floor-divided in
                                      \* place by one of shape (1, 1, 3)
          ELSE [outcome |-> "ok",
                lines |-> [q \in kp |->
                             <<Scaled(Offset(starts[in_bb[q]], bb), scale),
                               Scaled(Offset(ends[in_bb[q]], bb), scale)>>],
                id_a |-> [q \in kp |-> sel[in_bb[q]][1]],
                id_b |-> [q \in kp |-> sel[in_bb[q]][2]],
                distance |-> [q \in kp |-> rec.distances[cell(in_bb[q])]]]

\* lines 121-126: the pair lists the call works on (several when the
\* neighbour order has ties)
\* an optional argument is <<>> (None) or <<value>>
SelectedPairs(rec, n_neighbors, pairs) ==
    IF pairs = <<>> /\ n_neighbors # <<>>
    THEN ExtractNearestNeighbors(rec.distances, rec.seg_ids, n_neighbors[1], TRUE)
    ELSE IF pairs = <<>> THEN {ExhaustivePairs(rec.seg_ids)}
    ELSE {pairs[1]}

\* ---------------------------------------------------- keep_direct_distances
\* np.round: to the nearest integer, halves to the even one (p / q, q > 0)
RoundHalfEven(p, q) ==
    LET f == p \div q
        r == p % q
    IN IF 2 * r < q THEN f
       ELSE IF 2 * r > q THEN f + 1
       ELSE IF f % 2 = 0 THEN f ELSE f + 1

\* skimage.draw.line_nd(start, stop, endpoint=True): max|stop - start| + 1
\* points of np.linspace(start, stop), every coordinate rounded
LineNd(start, stop) ==
    LET m == SetMax({Abs(stop[d] - start[d]) : d \in 1..3})
        coord(t, d) == RoundHalfEven(start[d] * m + t * (stop[d] - start[d]), m)
    IN IF m = 0 THEN {start}
       ELSE {<<coord(t, 1), coord(t, 2), coord(t, 3)>> : t \in 0..m}

RECURSIVE BinaryDilation(_, _, _)
\* scipy.ndimage.binary_dilation(line_vol, iterations): every iteration adds
\* the face neighbours inside the volume
BinaryDilation(S, shp, iterations) ==
    IF iterations = 0 THEN S
    ELSE BinaryDilation(
            S \cup {v \in Voxels(shp) :
                      \E u \in S : Abs(u[1] - v[1]) + Abs(u[2] - v[2]) + Abs(u[3] - v[3]) = 1},
            shp, iterations - 1)

\* lines 182-193: the voxels of the (dilated) line
LineVol(ln, shp, line_dilation) ==
    IF line_dilation > 0
    THEN BinaryDilation(LineNd(ln[1], ln[2]), shp, line_dilation)
    ELSE LineNd(ln[1], ln[2])

\* the pair's own identifiers not taken out (np.setdiff1d(line_seg_ids, [0]))
LineSegIdsButBackground(seg, shp, ln, id_a, id_b, line_dilation) ==
    {seg[v] : v \in LineVol(ln, shp, line_dilation)} \ {0}

\* lines 198-199
LineSegIds(seg, shp, ln, id_a, id_b, line_dilation) ==
    {seg[v] : v \in LineVol(ln, shp, line_dilation)} \ {0, id_a, id_b}

RECURSIVE FilteredPairs(_, _, _, _, _)
\* lines 179-206: the loop over the lines from position q on
FilteredPairs(seg, shp, dl, line_dilation, q) ==
    IF q > Len(dl.lines) THEN <<>>
    ELSE (IF LineSegIds(seg, shp, dl.lines[q], dl.id_a[q], dl.id_b[q], line_dilation) = {}
          THEN <<(<<dl.id_a[q], dl.id_b[q]>>)>> ELSE <<>>)
         \o FilteredPairs(seg, shp, dl, line_dilation, q + 1)

\* ------------------------------------------- calls on a measurement record
BoxShape == <<4, 3, 3>>

\* the voxels of the box volume that carry labels; the rest is background
BoxSites == {<<0, 1, 1>>, <<1, 1, 1>>, <<3, 1, 1>>, <<2, 2, 1>>}

BoxVolumes ==
    {[shape |-> BoxShape,
      seg |-> [v \in Voxels(BoxShape) |-> IF v \in BoxSites THEN f[v] ELSE 0]] :
        f \in [BoxSites -> 0..MaxLabel]}

\* boxes as three slices: x from 0 or 1 to the last or one-past-last index,
\* y and z the whole axis
BBoxes(shp) ==
    {<<[start |-> a, stop |-> b], [start |-> 0, stop |-> shp[2]], [start |-> 0, stop |-> shp[3]]>> :
        a \in 0..1, b \in (shp[1] - 1)..shp[1]}

CanonicalPairs(ids) == {<<a, b>> \in Range(ids) \X Range(ids) : a < b}

\* explicit pair lists: the exhaustive list backwards, every pair given with
\* its identifiers swapped, one pair that names an identifier absent from
\* the record
PairLists(ids) ==
    {Reverse(ExhaustivePairs(ids))}
    \cup {<<(<<p[2], p[1]>>)>> : p \in CanonicalPairs(ids)}
    \cup {<<(<<1, MaxLabel + 1>>)>>}

DoneTask == [status |-> "done", pc |-> "end", j |-> 0, distances |-> <<>>, indices |-> <<>>]

\* the state a call of measure_pairwise_object_distances(segmentation,
\* "boundary", resolution, n_threads, save_path) ends in
InitLines ==
    /\ \E vol \in BoxVolumes \cup {LineVolume} :
          /\ shape = vol.shape
          /\ segmentation = vol.seg
    /\ resolution = NoResolution
    /\ n_threads = 1
    /\ distance_type = "boundary"
    /\ save_path = "measurements.npz"
    /\ edt_tie \in {"first", "last"}
    /\ LET rec == SequentialRecord(segmentation, shape, resolution, edt_tie)
           idx == 0..(Len(rec.seg_ids) - 1)
       IN /\ seg_ids = rec.seg_ids
          /\ pairwise_distances = rec.distances
          /\ end_points1 = rec.endpoints1
          /\ end_points2 = rec.endpoints2
          /\ tasks = [i \in idx |-> DoneTask]
          /\ next_result = Len(rec.seg_ids)
          /\ result = <<rec>>
          /\ saved = <<rec>>
          /\ writers = {<<a, c, c[1]>> :
                          a \in {"distances", "endpoints1", "endpoints2"},
                          c \in {d \in idx \X idx : d[1] < d[2]}}
    /\ pool_error = None
    /\ main_pc = "returned"
    /\ error = None
    /\ call = NoCall

\* create_distance_lines(measurement_path, n_neighbors, pairs, bb, scale)
CallCreateDistanceLines ==
    /\ call.op = "none"
    /\ saved # <<>>
    /\ \E bb \in {NoBB} \cup BBoxes(shape), scale \in Scales,
          n_neighbors \in {<<>>} \cup {<<k>> : k \in 1..(MaxNeighbors - 1)},
          pairs \in {<<>>} \cup {<<pl>> : pl \in PairLists(saved[1].seg_ids)} :
        \E sel \in SelectedPairs(saved[1], n_neighbors, pairs) :
            call' = [op |-> "create_distance_lines", n_neighbors |-> n_neighbors,
                     pairs |-> pairs, bb |-> bb, scale |-> scale, selected |-> sel,
                     returned |-> DistanceLines(saved[1], sel, bb, scale)]
    /\ UNCHANGED <<inputs, builder>>

\* keep_direct_distances(segmentation, measurement_path, line_dilation, scale)
CallKeepDirectDistances ==
    /\ call.op = "none"
    /\ saved # <<>>
    /\ \E line_dilation \in 0..MaxDilation, scale \in Scales :
        LET dl == DistanceLines(saved[1], ExhaustivePairs(saved[1].seg_ids), NoBB, scale)
        IN call' = [op |-> "keep_direct_distances", line_dilation |-> line_dilation,
                    scale |-> scale, outcome |-> dl.outcome,
                    returned |-> IF dl.outcome = "ok"
                                 THEN FilteredPairs(segmentation, shape, dl, line_dilation, 1)
                                 ELSE <<>>]
    /\ UNCHANGED <<inputs, builder>>

NextLines ==
    \/ CallCreateDistanceLines
    \/ CallKeepDirectDistances

SpecLines == InitLines /\ [][NextLines]_vars

\* the identifiers other than 0, a and b that the voxel path from p1 to p2,
\* dilated r times, overlaps
Obstacles(p1, p2, r, a, b) ==
    {segmentation[v] : v \in BinaryDilation(LineNd(p1, p2), shape, r)} \ {0, a, b}

StoredStart(a, b) == saved[1].endpoints1[<<IndexOf(seg_ids, a), IndexOf(seg_ids, b)>>]

StoredEnd(a, b) == saved[1].endpoints2[<<IndexOf(seg_ids, a), IndexOf(seg_ids, b)>>]

\* the three objects on one axis: distance(1, 2) is 8, pair (1, 2) is dropped,
\* the pairs of object 3 with objects 1 and 2 are kept
LineScenario ==
    (segmentation = LineVolume.seg /\ call.scale = NoScale) =>
        /\ saved[1].distances[<<0, 1>>] = 8 * 8
        /\ call.returned = <<(<<1, 3>>), (<<2, 3>>)>>

\* C7 as stated: a pair of the exhaustive set is retained exactly when the
\* (dilated) path between its STORED endpoints overlaps no other object.
C7_DirectBetweenStoredEndpoints ==
    (call.op = "keep_direct_distances" /\ call.outcome = "ok") =>
        /\ \A p \in CanonicalPairs(seg_ids) :
              (p \in Range(call.returned)) <=>
                  Obstacles(StoredStart(p[1], p[2]), StoredEnd(p[1], p[2]),
                            call.line_dilation, p[1], p[2]) = {}
        /\ Range(call.returned) \subseteq CanonicalPairs(seg_ids)
        /\ LineScenario

\* C7 amended: a pair of the exhaustive set is retained exactly when the
\* (dilated) path between its stored endpoints, each floor-divided by scale
\* when a scale is given, overlaps no identifier other than 0, id_a and id_b;
\* without a scale the three objects on one axis have distance(1, 2) = 8,
\* pair (1, 2) dropped and the pairs (1, 3) and (2, 3) kept.
C7_DirectBetweenScaledEndpoints ==
    (call.op = "keep_direct_distances" /\ call.outcome = "ok") =>
        /\ \A p \in CanonicalPairs(seg_ids) :
              (p \in Range(call.returned)) <=>
                  Obstacles(Scaled(StoredStart(p[1], p[2]), call.scale),
                            Scaled(StoredEnd(p[1], p[2]), call.scale),
                            call.line_dilation, p[1], p[2]) = {}
        /\ Range(call.returned) \subseteq CanonicalPairs(seg_ids)
        /\ LineScenario

C7_Witness ==
    /\ call.op = "keep_direct_distances"
    /\ call.outcome = "ok"
    /\ segmentation = LineVolume.seg
    /\ call.scale = NoScale
    /\ call.line_dilation = 0
    /\ call.returned = <<(<<1, 3>>), (<<2, 3>>)>>

\* the positions of the selected pairs whose two stored endpoints lie
\* strictly inside the box
InsidePositions(sel, bb) ==
    {q \in 1..Len(sel) :
        \A d \in 1..3 :
            /\ bb[d].start < StoredStart(sel[q][1], sel[q][2])[d]
            /\ StoredStart(sel[q][1], sel[q][2])[d] < bb[d].stop
            /\ bb[d].start < StoredEnd(sel[q][1], sel[q][2])[d]
            /\ StoredEnd(sel[q][1], sel[q][2])[d] < bb[d].stop}

FloorOffset(pt, bb, s) ==
    <<(pt[1] - bb[1].start) \div s, (pt[2] - bb[2].start) \div s,
      (pt[3] - bb[3].start) \div s>>

\* C8 as stated: with a box and a scale s the call returns exactly the lines
\* of the selected pairs with both endpoints strictly inside the box, in
\* their order, id_a, id_b and distance aligned, every coordinate being
\* floor((stored - origin) / s).
C8_FilterOffsetScale ==
    (/\ call.op = "create_distance_lines"
     /\ call.bb # NoBB
     /\ call.scale # NoScale
     /\ call.selected # <<>>
     /\ \A q \in 1..Len(call.selected) :
           {call.selected[q][1], call.selected[q][2]} \subseteq Range(seg_ids)) =>
        LET sel == call.selected
            inside == SortedSeq(InsidePositions(sel, call.bb))
            ret == call.returned
        IN /\ ret.outcome = "ok"
           /\ Len(ret.lines) = Len(inside)
           /\ \A q \in 1..Len(inside) :
                LET a == sel[inside[q]][1]
                    b == sel[inside[q]][2]
                IN /\ ret.id_a[q] = a
                   /\ ret.id_b[q] = b
                   /\ ret.distance[q] =
                         saved[1].distances[<<IndexOf(seg_ids, a), IndexOf(seg_ids, b)>>]
                   /\ ret.lines[q] =
                         <<FloorOffset(StoredStart(a, b), call.bb, call.scale),
                           FloorOffset(StoredEnd(a, b), call.bb, call.scale)>>

\* a box inside the volume that is not the whole volume
StrictlySmaller(bb, shp) ==
    /\ \A d \in 1..3 : 0 <= bb[d].start /\ bb[d].start < bb[d].stop /\ bb[d].stop <= shp[d]
    /\ \E d \in 1..3 : bb[d].stop - bb[d].start < shp[d]

BoxOnlyCall ==
    /\ call.op = "create_distance_lines"
    /\ call.n_neighbors = <<>>
    /\ call.pairs = <<>>
    /\ call.scale = NoScale
    /\ call.bb # NoBB
    /\ StrictlySmaller(call.bb, shape)

EndpointsInBox ==
    \A q \in 1..Len(call.returned.lines) : \A e \in 1..2 : \A d \in 1..3 :
        /\ 0 <= call.returned.lines[q][e][d]
        /\ call.returned.lines[q][e][d] < call.bb[d].stop - call.bb[d].start

====
